---- MODULE Spec2Model ----
\* Static error-surface analyzer (awesome_errors.analysis.error_analyzer.ErrorAnalyzer):
\* one analyzer object, its analyze() runs, and the AST walk they perform.
EXTENDS Integers, Sequences, FiniteSets, TLC

\* ------------------------------------------------------------------ bounds
\* analyze() calls made on the one analyzer object.
MaxRuns == 2
\* max_depth ranges over 0..MaxDepthBound and the constructor's default.
MaxDepthBound == 2
\* ErrorAnalyzer.__init__: max_depth: int = 10.
DefaultMaxDepth == 10

\* ------------------------------------------------------------------ values
\* Python None where an Optional[str] is returned.
NoneStr == "<None>"

\* `x or default` / `if x:` on an Optional[str]: None and "" are both falsy.
Falsy(s) == s = NoneStr \/ s = ""

Min(S) == CHOOSE x \in S : \A y \in S : x <= y

\* ------------------------------------------------------------------ ast nodes
NoNode == [t |-> "None"]
Constant(s) == [t |-> "Constant", type |-> "str", s |-> s, i |-> 0]
IntConstant(i) == [t |-> "Constant", type |-> "int", s |-> "", i |-> i]
Name(id, lineno) == [t |-> "Name", id |-> id, lineno |-> lineno]
Attribute(value, attr) == [t |-> "Attribute", value |-> value, attr |-> attr]
Call(func, args, keywords, lineno) ==
    [t |-> "Call", func |-> func, args |-> args, keywords |-> keywords, lineno |-> lineno]
keyword(arg, value) == [arg |-> arg, value |-> value]
Raise(exc) == [t |-> "Raise", exc |-> exc]
Expr(value) == [t |-> "Expr", value |-> value]
Await(value) == [t |-> "Await", value |-> value]

\* ------------------------------------------------------------------ tables
app_error_classes ==
    {"AppError", "ValidationError", "AuthError", "NotFoundError", "DatabaseError",
     "BusinessLogicError", "HTTPException"}

_is_app_error_class(name) == name \in app_error_classes

default_codes ==
    [ValidationError |-> "VALIDATION_FAILED",
     AuthError |-> "AUTH_REQUIRED",
     NotFoundError |-> "RESOURCE_NOT_FOUND",
     DatabaseError |-> "DB_QUERY_ERROR",
     BusinessLogicError |-> "BUSINESS_RULE_VIOLATION",
     AppError |-> "INTERNAL_ERROR",
     HTTPException |-> "HTTP_EXCEPTION"]

_get_default_error_code_swapped(class_name) ==
    IF class_name \in DOMAIN default_codes /\ class_name # "AppError"
    THEN default_codes["AppError"]
    ELSE "UNKNOWN_ERROR"

_get_default_error_code(class_name) ==
    IF class_name \in DOMAIN default_codes THEN default_codes[class_name] ELSE "UNKNOWN_ERROR"

_map_status_code_to_error_code(status_code) ==
    CASE status_code = 400 -> "VALIDATION_FAILED"
      [] status_code = 401 -> "AUTH_REQUIRED"
      [] status_code = 403 -> "AUTH_PERMISSION_DENIED"
      [] status_code = 404 -> "RESOURCE_NOT_FOUND"
      [] status_code = 409 -> "RESOURCE_CONFLICT"
      [] status_code = 422 -> "BUSINESS_RULE_VIOLATION"
      [] status_code = 500 -> "INTERNAL_ERROR"
      [] OTHER -> "HTTP_EXCEPTION"

\* ------------------------------------------------------------------ extraction
_extract_string_value(node) ==
    IF node.t = "Constant" /\ node.type = "str" THEN node.s ELSE NoneStr

_get_function_name(node) ==
    IF node.t = "Name" THEN node.id
    ELSE IF node.t = "Attribute" THEN node.attr
    ELSE NoneStr

\* Index of the first keyword named `arg`, 0 when there is none.
FirstKeyword(keywords, arg) ==
    LET hits == {i \in 1..Len(keywords) : keywords[i].arg = arg}
    IN IF hits = {} THEN 0 ELSE Min(hits)

_extract_error_code_ignoring_keyword(node) ==
    _get_default_error_code(
        IF Falsy(_get_function_name(node.func)) THEN "unknown"
        ELSE _get_function_name(node.func))

_extract_error_code_any_enum(node) ==
    LET k == FirstKeyword(node.keywords, "code")
        pos == {i \in 1..Len(node.args) :
                   /\ node.args[i].t = "Call"
                   /\ _get_function_name(node.args[i].func) = "ErrorCode"
                   /\ Len(node.args[i].args) > 0}
        func_name == _get_function_name(node.func)
    IN IF k # 0
       THEN LET v == node.keywords[k].value
            IN IF v.t = "Constant" /\ v.type = "str" THEN v.s
               ELSE IF v.t = "Attribute" /\ v.value.t = "Name"
                    THEN v.attr
               ELSE IF /\ v.t = "Call"
                       /\ v.func.t = "Name"
                       /\ v.func.id = "ErrorCode"
                       /\ Len(v.args) > 0
                       /\ v.args[1].t = "Constant"
                       /\ v.args[1].type = "str"
                    THEN v.args[1].s
               ELSE "UNKNOWN_ERROR"
       ELSE IF pos # {}
            THEN LET s == _extract_string_value(node.args[Min(pos)].args[1])
                 IN IF Falsy(s) THEN "UNKNOWN_ERROR" ELSE s
       ELSE _get_default_error_code(IF Falsy(func_name) THEN "unknown" ELSE func_name)

_extract_error_code(node) ==
    LET k == FirstKeyword(node.keywords, "code")
        pos == {i \in 1..Len(node.args) :
                   /\ node.args[i].t = "Call"
                   /\ _get_function_name(node.args[i].func) = "ErrorCode"
                   /\ Len(node.args[i].args) > 0}
        func_name == _get_function_name(node.func)
    IN IF k # 0
       THEN LET v == node.keywords[k].value
            IN IF v.t = "Constant" /\ v.type = "str" THEN v.s
               ELSE IF v.t = "Attribute" /\ v.value.t = "Name" /\ v.value.id = "ErrorCode"
                    THEN v.attr
               ELSE IF /\ v.t = "Call"
                       /\ v.func.t = "Name"
                       /\ v.func.id = "ErrorCode"
                       /\ Len(v.args) > 0
                       /\ v.args[1].t = "Constant"
                       /\ v.args[1].type = "str"
                    THEN v.args[1].s
               ELSE "UNKNOWN_ERROR"
       ELSE IF pos # {}
            THEN LET s == _extract_string_value(node.args[Min(pos)].args[1])
                 IN IF Falsy(s) THEN "UNKNOWN_ERROR" ELSE s
       ELSE _get_default_error_code(IF Falsy(func_name) THEN "unknown" ELSE func_name)

_extract_error_message_positional_only(node) ==
    LET first == IF Len(node.args) > 0 THEN _extract_string_value(node.args[1]) ELSE NoneStr
    IN IF ~Falsy(first) THEN first ELSE "Unknown error"

_extract_error_message(node) ==
    LET first == IF Len(node.args) > 0 THEN _extract_string_value(node.args[1]) ELSE NoneStr
        k == FirstKeyword(node.keywords, "message")
    IN IF ~Falsy(first) THEN first
       ELSE IF k # 0
            THEN LET s == _extract_string_value(node.keywords[k].value)
                 IN IF Falsy(s) THEN "Unknown error" ELSE s
       ELSE "Unknown error"

\* The last status_code / detail keyword with a literal of the right type wins
\* (the loop overwrites), then a positional int overrides the status.
LastLiteralKeyword(keywords, arg, type) ==
    LET hits == {i \in 1..Len(keywords) :
                    /\ keywords[i].arg = arg
                    /\ keywords[i].value.t = "Constant"
                    /\ keywords[i].value.type = type}
    IN IF hits = {} THEN 0 ELSE CHOOSE i \in hits : \A j \in hits : j <= i

_extract_http_exception_info(node) ==
    LET ks == LastLiteralKeyword(node.keywords, "status_code", "int")
        kd == LastLiteralKeyword(node.keywords, "detail", "str")
        kw_status == IF ks = 0 THEN 500 ELSE node.keywords[ks].value.i
        status_code ==
            IF Len(node.args) > 0 /\ node.args[1].t = "Constant" /\ node.args[1].type = "int"
            THEN node.args[1].i
            ELSE kw_status
    IN [type |-> "HTTPException",
        code |-> _map_status_code_to_error_code(status_code),
        message |-> IF kd = 0 THEN "HTTP Error" ELSE node.keywords[kd].value.s,
        status_code |-> status_code,
        line |-> node.lineno]

\* None (no occurrence) is the record NoInfo.
NoInfo == [type |-> NoneStr]

_extract_error_info_calls_only(node) ==
    IF node.t = "Call"
       /\ ~Falsy(_get_function_name(node.func))
       /\ _is_app_error_class(_get_function_name(node.func))
    THEN IF _get_function_name(node.func) = "HTTPException"
         THEN _extract_http_exception_info(node)
         ELSE [type |-> _get_function_name(node.func),
               code |-> _extract_error_code(node),
               message |-> _extract_error_message(node),
               line |-> node.lineno]
    ELSE NoInfo

_extract_error_info(node) ==
    IF node.t = "Call"
    THEN LET func_name == _get_function_name(node.func)
         IN IF ~Falsy(func_name) /\ _is_app_error_class(func_name)
            THEN IF func_name = "HTTPException"
                 THEN _extract_http_exception_info(node)
                 ELSE [type |-> func_name,
                       code |-> _extract_error_code(node),
                       message |-> _extract_error_message(node),
                       line |-> node.lineno]
            ELSE NoInfo
    ELSE IF node.t = "Name"
    THEN [type |-> "unknown", code |-> "UNKNOWN_ERROR", message |-> "Re-raised error",
          line |-> node.lineno]
    ELSE NoInfo

\* ------------------------------------------------------------------ call shapes
\* _get_attr_chain gives the dotted chain; it is kept as the sequence of its
\* identifiers ("session.query" is <<"session", "query">>).
RECURSIVE _get_attr_chain(_)
_get_attr_chain(node) ==
    IF node.t = "Attribute" THEN _get_attr_chain(node.value) \o <<node.attr>>
    ELSE IF node.t = "Name" THEN <<node.id>>
    ELSE <<>>

\* The call string is chain + "()"; <<>> stands for the empty string.
_get_call_string(node) ==
    IF node.func.t = "Attribute" THEN _get_attr_chain(node.func)
    ELSE IF node.func.t = "Name" THEN <<node.func.id>>
    ELSE <<>>

\* Identifiers of the modelled programs whose text ends in "session".
IdentsEndingInSession == {"session", "db_session"}

\* `"session." in call_str`: some identifier followed by a dot ends in "session".
ContainsSessionDot(call_str) ==
    \E i \in 1..(Len(call_str) - 1) : call_str[i] \in IdentsEndingInSession

\* `".name(" in call_str`: the only "(" closes the chain, so the last identifier
\* is `name` and a dot precedes it.
ContainsDotMethod(call_str, name) ==
    Len(call_str) >= 2 /\ call_str[Len(call_str)] = name

\* `"await " in call_str`: the text is identifiers, dots and "()", none holds a blank.
ContainsAwaitBlank(call_str) == FALSE

sqlalchemy_methods ==
    {"execute", "commit", "rollback", "query", "add", "delete", "merge", "flush"}

pydantic_methods == {"model_validate", "parse_obj", "model_dump", "model_validate_json"}

SQL_PATTERNS_codes ==
    {"DB_DUPLICATE_ENTRY", "DB_INVALID_REFERENCE", "DB_MISSING_REQUIRED",
     "DB_CONSTRAINT_VIOLATION"}

_add_sqlalchemy_errors_patterns_only(errs) == errs \cup SQL_PATTERNS_codes

_add_sqlalchemy_errors(errs) ==
    errs \cup SQL_PATTERNS_codes
         \cup {"DB_CONNECTION_ERROR", "DB_QUERY_ERROR", "DB_TRANSACTION_ERROR"}

\* The codes _analyze_call_context adds to `errs` for one call node.
_analyze_call_context(errs, node) ==
    LET call_str == _get_call_string(node)
    IN IF \/ ContainsSessionDot(call_str)
          \/ \E m \in sqlalchemy_methods : ContainsDotMethod(call_str, m)
       THEN _add_sqlalchemy_errors(errs)
       ELSE IF \E m \in pydantic_methods : ContainsDotMethod(call_str, m)
       THEN errs \cup {"VALIDATION_FAILED"}
       ELSE IF ContainsAwaitBlank(call_str)
       THEN errs \cup {"INTERNAL_ERROR", "TIMEOUT_ERROR"}
       ELSE errs

_resolve_method_call(node) == NoneStr

_resolve_function_call(node) == NoneStr

\* ------------------------------------------------------------------ decorators
decorator_errors_table ==
    [require_auth |-> <<"AUTH_REQUIRED", "AUTH_PERMISSION_DENIED">>,
     validate_input |-> <<"VALIDATION_FAILED", "INVALID_INPUT">>,
     rate_limit |-> <<"RATE_LIMIT_EXCEEDED">>,
     cache |-> <<"CACHE_ERROR">>]

Range(seq) == {seq[i] : i \in 1..Len(seq)}

RECURSIVE Join(_)
Join(tokens) == IF tokens = <<>> THEN "" ELSE Head(tokens) \o Join(Tail(tokens))

\* Tokens that are blanks only.
Whitespace == {" ", "  "}

\* str.strip() on a line of tokens: the blank tokens at both ends go.
RECURSIVE strip(_)
strip(tokens) ==
    IF tokens = <<>> THEN <<>>
    ELSE IF Head(tokens) \in Whitespace THEN strip(Tail(tokens))
    ELSE IF tokens[Len(tokens)] \in Whitespace THEN strip(SubSeq(tokens, 1, Len(tokens) - 1))
    ELSE tokens

\* A source line is the sequence of its tokens; replace("@", "") drops the "@"
\* tokens, strip() the blanks at the ends, and split("(")[0] keeps what precedes
\* the first "(".
DecoratorName(decorator_line) ==
    LET kept == strip(SelectSeq(decorator_line, LAMBDA tok : tok # "@"))
        parens == {i \in 1..Len(kept) : kept[i] = "("}
    IN Join(IF parens = {} THEN kept ELSE SubSeq(kept, 1, Min(parens) - 1))

\* s is the record of the analyzer's fields.
_analyze_decorator_line(s, decorator_line) ==
    LET decorator_name == DecoratorName(decorator_line)
    IN IF decorator_name \in DOMAIN decorator_errors_table
       THEN [s EXCEPT
               !.errors = @ \cup Range(decorator_errors_table[decorator_name]),
               !.decorator_errors =
                   Append(@, [decorator |-> decorator_name,
                              possible_errors |-> decorator_errors_table[decorator_name],
                              type |-> "decorator_analysis"])]
       ELSE s

\* The lines collected by the scan: each line is stripped; those starting with
\* "@" are kept, up to the first line starting with "def ".
DecoratorLines(source_lines) ==
    LET lines == [i \in 1..Len(source_lines) |-> strip(source_lines[i])]
        defs == {i \in 1..Len(lines) : lines[i] # <<>> /\ lines[i][1] = "def"}
        stop == IF defs = {} THEN Len(lines) ELSE Min(defs) - 1
    IN SelectSeq(SubSeq(lines, 1, stop), LAMBDA line : line # <<>> /\ line[1] = "@")

RECURSIVE AnalyzeDecoratorLines(_, _)
AnalyzeDecoratorLines(s, lines) ==
    IF lines = <<>> THEN s
    ELSE AnalyzeDecoratorLines(_analyze_decorator_line(s, Head(lines)), Tail(lines))

\* ------------------------------------------------------------------ state
VARIABLES
    function,            \* self.function: the name of the target callable
    max_depth,           \* self.max_depth
    analyze_decorators,  \* self.analyze_decorators
    raise_expr,          \* the expression raised in the source text of raise_func
    current_depth,       \* self.current_depth
    errors,              \* self.errors
    error_details,       \* self.error_details (one list object for the analyzer's life)
    visited_functions,   \* self.visited_functions
    decorator_errors,    \* self.decorator_errors (one list object, likewise)
    pc,                  \* "idle", "walking", "done" (analyze returned), "raised"
    stack,               \* activations of _analyze_function, innermost last
    results,             \* the dictionaries analyze() returned, as they were on return
    runs,                \* analyze() calls so far
    truncated,           \* history: a resolved callee was refused by the depth cap
    walks,               \* history: bodies walked in the current run, per function
    steps,               \* history: visitor and return steps of the current run
    reached,             \* history: current_depth >= max_depth held at some step of the run
    wrapper,             \* what openapi_errors(...)(function) attached, NoWrapper before
    instances            \* the separate ErrorAnalyzer objects of TwoAnalyzers

vars ==
    <<function, max_depth, analyze_decorators, raise_expr, current_depth, errors,
      error_details, visited_functions, decorator_errors, pc, stack, results, runs,
      truncated, walks, steps, reached, wrapper, instances>>

\* ------------------------------------------------------------------ programs
\* The callables an analyzer is built on. `source` is what inspect.getsource and
\* ast.parse do with the callable: "ok", "OSError" / "TypeError" (no source),
\* "SyntaxError" (source found, the dedented fragment does not parse).
\* qualname = NoneStr: the object has no __qualname__ (a functools.partial).
FunctionNames ==
    {"empty_func", "raise_func", "main_func", "helper_func", "func_a", "func_b",
     "db_func", "decorated_func", "method_with_text", "partial_obj", "session_execute",
     "len", "loads", "test_func", "guarded_func", "func_generator",
     "commit_func", "async_fetch", "session_model_func", "async_handler",
     "plain_handler", "delete_route"}

PlainDef(name) == <<<<"def", name, "(", ")", ":">>, <<"...">>>>

\* A definition whose body holds a decorated nested definition:
\*     <header>: / @cache / def inner(): / return 1 / return inner
NestedDef(header) ==
    <<header, <<"  ", "@", "cache">>, <<"  ", "def", "inner", "(", ")", ":">>,
      <<"  ", "  ", "return", "1">>, <<"  ", "return", "inner">>>>

PlainCall(id, lineno) == Call(Name(id, lineno), <<>>, <<>>, lineno)

Ctor(id, message, lineno) == Call(Name(id, lineno), <<Constant(message)>>, <<>>, lineno)

Function(name) ==
    LET base == [name |-> name, module |-> "app", qualname |-> name, source |-> "ok",
                 source_lines |-> PlainDef(name), decorator_list |-> <<>>, body |-> <<>>]
    IN CASE name = "raise_func" -> [base EXCEPT !.body = <<Raise(raise_expr)>>]
         [] name = "main_func" ->
              [base EXCEPT !.body = <<Expr(PlainCall("helper_func", 2)),
                                      Raise(Ctor("NotFoundError", "Main error", 3))>>]
         [] name = "helper_func" ->
              [base EXCEPT !.body = <<Raise(Ctor("AuthError", "Helper error", 2))>>]
         [] name = "func_a" ->
              [base EXCEPT !.body = <<Expr(PlainCall("func_b", 2)),
                                      Raise(Ctor("ValidationError", "a", 3))>>]
         [] name = "func_b" ->
              [base EXCEPT !.body = <<Expr(PlainCall("func_a", 2)),
                                      Raise(Ctor("BusinessLogicError", "b", 3))>>]
         [] name = "db_func" ->
              [base EXCEPT !.body =
                  <<Expr(Call(Attribute(Call(Attribute(Name("session", 2), "query"),
                                             <<Name("User", 2)>>, <<>>, 2), "get"),
                              <<IntConstant(1)>>, <<>>, 2)),
                    Expr(Call(Attribute(Name("User", 3), "model_validate"),
                              <<Name("data", 3)>>, <<>>, 3)),
                    Raise(Call(Name("DatabaseError", 4), <<Constant("db")>>,
                               <<keyword("code", Constant("CUSTOM_CODE"))>>, 4))>>]
         [] name = "decorated_func" ->
              [base EXCEPT
                 !.source_lines =
                     <<<<"@", "require_auth">>,
                       <<"@", "rate_limit", "(", "5", ")">>,
                       <<"@", "app.get", "(", "'/x'", ")">>>> \o PlainDef(name),
                 !.decorator_list =
                     <<Name("require_auth", 1),
                       Call(Name("rate_limit", 2), <<IntConstant(5)>>, <<>>, 2),
                       Call(Attribute(Name("app", 3), "get"), <<Constant("/x")>>, <<>>, 3)>>,
                 !.body = <<Raise(Ctor("NotFoundError", "x", 5))>>]
         [] name = "method_with_text" ->
              [base EXCEPT
                 !.qualname = "K.method_with_text",
                 !.source = "SyntaxError",
                 !.source_lines = <<<<"@", "cache">>>> \o PlainDef(name),
                 !.decorator_list = <<Name("cache", 1)>>,
                 !.body = <<Raise(Ctor("NotFoundError", "x", 6))>>]
         [] name = "partial_obj" ->
              [base EXCEPT !.module = "functools", !.qualname = NoneStr,
                           !.source = "TypeError", !.source_lines = <<>>]
         [] name = "session_execute" ->
              [base EXCEPT !.name = "execute", !.module = "sqlalchemy.orm.session",
                           !.qualname = "Session.execute", !.source = "OSError",
                           !.source_lines = <<>>]
         [] name = "len" ->
              [base EXCEPT !.module = "builtins", !.source = "TypeError",
                           !.source_lines = <<>>]
         [] name = "loads" ->
              [base EXCEPT !.module = "orjson", !.source = "TypeError",
                           !.source_lines = <<>>]
         \* try: raise ValueError("test") / except ValueError as e: raise e
         [] name = "test_func" ->
              [base EXCEPT !.body = <<Raise(Ctor("ValueError", "test", 3)),
                                      Raise(Name("e", 5))>>]
         \* @require_auth  # login required / @rate_limit (5) / @cache / def guarded_func(): ...
         [] name = "guarded_func" ->
              [base EXCEPT
                 !.source_lines =
                     <<<<"@", "require_auth", "  ", "# login required">>,
                       <<"@", "rate_limit", " ", "(", "5", ")">>,
                       <<"@", "cache">>>> \o PlainDef(name),
                 !.decorator_list =
                     <<Name("require_auth", 1),
                       Call(Name("rate_limit", 2), <<IntConstant(5)>>, <<>>, 2),
                       Name("cache", 3)>>]
         \* A callable object of a class defined in a sqlalchemy module (as
         \* sqlalchemy.func is): it has __module__, no __qualname__ and no source.
         [] name = "func_generator" ->
              [base EXCEPT !.module = "sqlalchemy.sql.functions", !.qualname = NoneStr,
                           !.source = "TypeError", !.source_lines = <<>>]
         \* uow.commit() / get_session().execute(stmt) / cache.add(item)
         [] name = "commit_func" ->
              [base EXCEPT !.body =
                  <<Expr(Call(Attribute(Name("uow", 2), "commit"), <<>>, <<>>, 2)),
                    Expr(Call(Attribute(PlainCall("get_session", 3), "execute"),
                              <<Name("stmt", 3)>>, <<>>, 3)),
                    Expr(Call(Attribute(Name("cache", 4), "add"),
                              <<Name("item", 4)>>, <<>>, 4))>>]
         \* async def async_fetch(): await fetch() / return await client.request("x")
         [] name = "async_fetch" ->
              [base EXCEPT
                 !.source_lines =
                     <<<<"async", "def", name, "(", ")", ":">>, <<"  ", "...">>>>,
                 !.body =
                     <<Expr(Await(PlainCall("fetch", 2))),
                       Expr(Await(Call(Attribute(Name("client", 3), "request"),
                                       <<Constant("x")>>, <<>>, 3)))>>]
         \* return db_session.model_validate(data)
         [] name = "session_model_func" ->
              [base EXCEPT !.body =
                  <<Expr(Call(Attribute(Name("db_session", 2), "model_validate"),
                              <<Name("data", 2)>>, <<>>, 2))>>]
         [] name = "async_handler" ->
              [base EXCEPT
                 !.source_lines = NestedDef(<<"async", "def", name, "(", ")", ":">>)]
         [] name = "plain_handler" ->
              [base EXCEPT
                 !.source_lines = NestedDef(<<"def", name, "(", ")", ":">>)]
         \* @app.delete("/x") / def delete_route(): raise NotFoundError("x")
         [] name = "delete_route" ->
              [base EXCEPT
                 !.source_lines =
                     <<<<"@", "app.delete", "(", "'/x'", ")">>>> \o PlainDef(name),
                 !.decorator_list =
                     <<Call(Attribute(Name("app", 1), "delete"), <<Constant("/x")>>,
                            <<>>, 1)>>,
                 !.body = <<Raise(Ctor("NotFoundError", "x", 3))>>]
         [] OTHER -> base

\* Raise/Call nodes of a subtree in the order NodeVisitor.generic_visit reaches them
\* (a node before its fields; Call: func, args, keywords; Raise: exc).
RECURSIVE Nodes(_), NodesOfSeq(_)
Nodes(n) ==
    CASE n.t = "Raise" -> <<n>> \o Nodes(n.exc)
      [] n.t = "Expr" -> Nodes(n.value)
      [] n.t = "Await" -> Nodes(n.value)
      [] n.t = "Call" ->
           <<n>> \o Nodes(n.func) \o NodesOfSeq(n.args)
                 \o NodesOfSeq([i \in 1..Len(n.keywords) |-> n.keywords[i].value])
      [] n.t = "Attribute" -> Nodes(n.value)
      [] OTHER -> <<>>

NodesOfSeq(ns) == IF ns = <<>> THEN <<>> ELSE Nodes(Head(ns)) \o NodesOfSeq(Tail(ns))

\* The parsed FunctionDef: body first, then decorator_list.
TreeNodes(name) == NodesOfSeq(Function(name).body) \o NodesOfSeq(Function(name).decorator_list)

\* The function a plain-name call is bound to in the analysed program.
Binding(node) ==
    IF node.t = "Call" /\ node.func.t = "Name" /\ node.func.id \in FunctionNames
    THEN node.func.id
    ELSE NoneStr

\* ------------------------------------------------------------------ sorted()
\* Every code a run can put in self.errors or a caller can pass to openapi_errors,
\* in ascending string order (code points: upper case before "_" before lower case).
CodeOrder ==
    <<"", "AUTH_PERMISSION_DENIED", "AUTH_REQUIRED", "BUSINESS_RULE_VIOLATION",
      "CACHE_ERROR", "CUSTOM_CODE", "CUSTOM_ERROR_1", "DB_CONNECTION_ERROR",
      "DB_CONSTRAINT_VIOLATION", "DB_DUPLICATE_ENTRY", "DB_INVALID_REFERENCE",
      "DB_MISSING_REQUIRED", "DB_QUERY_ERROR", "DB_TRANSACTION_ERROR", "HTTP_EXCEPTION",
      "INTERNAL_ERROR", "INVALID_FORMAT", "INVALID_INPUT", "NETWORK_ERROR", "POS_CODE",
      "RATE_LIMITED", "RATE_LIMIT_EXCEEDED", "RESOURCE_CONFLICT", "RESOURCE_NOT_FOUND",
      "TIMEOUT_ERROR", "UNKNOWN_ERROR", "USER_NOT_FOUND", "VALIDATION_FAILED",
      "custom-error-1">>

\* The position of a code in CodeOrder: a < b as strings iff Index(a) < Index(b).
Index(code) == CHOOSE i \in 1..Len(CodeOrder) : CodeOrder[i] = code

sorted_descending(S) ==
    [i \in 1..Cardinality(S) |->
        SelectSeq(CodeOrder, LAMBDA c : c \in S)[Cardinality(S) + 1 - i]]

sorted(S) == SelectSeq(CodeOrder, LAMBDA c : c \in S)

\* ------------------------------------------------------------------ analyzer
\* The analyzer's fields, the activation stack and the pending exception as one
\* record, so that the methods compose as the calls in the code do.
Self ==
    [function |-> function, max_depth |-> max_depth,
     current_depth |-> current_depth, errors |-> errors, error_details |-> error_details,
     visited_functions |-> visited_functions, decorator_errors |-> decorator_errors,
     stack |-> stack, raised |-> NoneStr, truncated |-> truncated, walks |-> walks,
     reached |-> reached]

Frame(func, is_main, entered) ==
    [func |-> func, idx |-> 1, is_main |-> is_main, entered |-> entered]

reset_state_keeping_details(s) ==
    [s EXCEPT !.errors = {}, !.visited_functions = {}, !.decorator_errors = <<>>,
              !.current_depth = 0]

reset_state_keeping_visited(s) ==
    [s EXCEPT !.errors = {}, !.error_details = <<>>, !.decorator_errors = <<>>,
              !.current_depth = 0]

\* analyze(), "Reset state".
reset_state(s) ==
    [s EXCEPT !.errors = {}, !.error_details = <<>>, !.visited_functions = {},
              !.decorator_errors = <<>>, !.current_depth = 0]

\* inspect.getsourcelines fails exactly when inspect.getsource does.
_analyze_decorators(s, func) ==
    IF Function(func).source \in {"OSError", "TypeError"} THEN s
    ELSE AnalyzeDecoratorLines(s, DecoratorLines(Function(func).source_lines))

ModulesContainingSqlalchemy == {"sqlalchemy.orm.session", "sqlalchemy.sql.functions"}
ModulesContainingJson == {"orjson", "json"}
ModulesContainingRequestsOrHttpx == {"requests.api", "httpx"}

_analyze_builtin_function(errs, func) ==
    LET func_name == Function(func).name
        module_name == Function(func).module
    IN IF module_name \in ModulesContainingSqlalchemy THEN _add_sqlalchemy_errors(errs)
       ELSE IF func_name \in {"loads", "dumps"} /\ module_name \in ModulesContainingJson
       THEN errs \cup {"INVALID_FORMAT"}
       ELSE IF module_name \in ModulesContainingRequestsOrHttpx
       THEN errs \cup {"INTERNAL_ERROR", "NETWORK_ERROR"}
       ELSE errs

_analyze_function_capping_target(s, func, is_main) ==
    IF s.current_depth >= s.max_depth
    THEN [s EXCEPT !.stack = Append(@, Frame(func, is_main, FALSE))]
    ELSE IF Function(func).qualname = NoneStr
    THEN [s EXCEPT !.raised = "AttributeError"]
    ELSE LET func_name == <<Function(func).module, Function(func).qualname>>
         IN IF func_name \in s.visited_functions
            THEN [s EXCEPT !.stack = Append(@, Frame(func, is_main, FALSE))]
            ELSE LET s1 == [s EXCEPT !.visited_functions = @ \cup {func_name},
                                     !.current_depth = IF is_main THEN @ ELSE @ + 1]
                 IN CASE Function(func).source = "ok" ->
                           [s1 EXCEPT !.stack = Append(@, Frame(func, is_main, TRUE)),
                                      !.walks[func] = @ + 1]
                      [] Function(func).source = "SyntaxError" ->
                           [s1 EXCEPT !.raised = "SyntaxError"]
                      [] OTHER ->
                           [s1 EXCEPT
                              !.errors = _analyze_builtin_function(@, func),
                              !.stack = Append(@, [Frame(func, is_main, TRUE) EXCEPT
                                                      !.idx = Len(TreeNodes(func)) + 1])]

\* _analyze_function up to the start of the walk. The activation it leaves on the
\* stack is finished by AnalyzeFunctionReturn; `entered` is false when the call
\* returned at one of its two guards.
_analyze_function(s, func, is_main) ==
    IF s.current_depth >= s.max_depth /\ ~is_main
    THEN [s EXCEPT !.stack = Append(@, Frame(func, is_main, FALSE))]
    ELSE IF Function(func).qualname = NoneStr
    THEN [s EXCEPT !.raised = "AttributeError"]
    ELSE LET func_name == <<Function(func).module, Function(func).qualname>>
         IN IF func_name \in s.visited_functions
            THEN [s EXCEPT !.stack = Append(@, Frame(func, is_main, FALSE))]
            ELSE LET s1 == [s EXCEPT !.visited_functions = @ \cup {func_name},
                                     !.current_depth = IF is_main THEN @ ELSE @ + 1]
                 IN CASE Function(func).source = "ok" ->
                           [s1 EXCEPT !.stack = Append(@, Frame(func, is_main, TRUE)),
                                      !.walks[func] = @ + 1]
                      [] Function(func).source = "SyntaxError" ->
                           [s1 EXCEPT !.raised = "SyntaxError"]
                      [] OTHER ->
                           [s1 EXCEPT
                              !.errors = _analyze_builtin_function(@, func),
                              !.stack = Append(@, [Frame(func, is_main, TRUE) EXCEPT
                                                      !.idx = Len(TreeNodes(func)) + 1])]

visit_Raise_not_recording_code(s, node) ==
    IF node.exc.t # "None" /\ _extract_error_info(node.exc) # NoInfo
    THEN [s EXCEPT !.error_details = Append(@, _extract_error_info(node.exc))]
    ELSE s

\* visit_Raise before its generic_visit (the children are the next nodes).
visit_Raise(s, node) ==
    IF node.exc.t # "None" /\ _extract_error_info(node.exc) # NoInfo
    THEN [s EXCEPT !.errors = @ \cup {_extract_error_info(node.exc).code},
                   !.error_details = Append(@, _extract_error_info(node.exc))]
    ELSE s

_analyze_method_call(s, node) ==
    IF _resolve_method_call(node) # NoneStr /\ s.current_depth < s.max_depth
    THEN _analyze_function(s, _resolve_method_call(node), FALSE)
    ELSE [s EXCEPT !.truncated = @ \/ _resolve_method_call(node) # NoneStr]

\* visit_Call before its generic_visit.
visit_Call(s, node) ==
    LET s1 == [s EXCEPT !.errors = _analyze_call_context(@, node)]
    IN IF node.func.t = "Attribute" THEN _analyze_method_call(s1, node)
       ELSE IF _resolve_function_call(node) # NoneStr /\ s1.current_depth < s1.max_depth
       THEN _analyze_function(s1, _resolve_function_call(node), FALSE)
       ELSE [s1 EXCEPT !.truncated = @ \/ _resolve_function_call(node) # NoneStr]

Result_never_flagged(s) ==
    [function_name |-> Function(s.function).name,
     error_codes |-> sorted(s.errors),
     error_details |-> s.error_details,
     decorator_errors |-> s.decorator_errors,
     total_errors |-> Cardinality(s.errors),
     analysis_depth |-> s.current_depth,
     max_depth_reached |-> FALSE]

\* The dictionary analyze() returns. error_details and decorator_errors are the
\* analyzer's own list objects, not copies: see View.
Result(s) ==
    [function_name |-> Function(s.function).name,
     error_codes |-> sorted(s.errors),
     error_details |-> s.error_details,
     decorator_errors |-> s.decorator_errors,
     total_errors |-> Cardinality(s.errors),
     analysis_depth |-> s.current_depth,
     max_depth_reached |-> s.current_depth >= s.max_depth]

\* What the holder of the i-th returned dictionary reads now: its two list
\* entries are self.error_details and self.decorator_errors themselves.
View(i) ==
    [results[i] EXCEPT !.error_details = error_details,
                       !.decorator_errors = decorator_errors]

\* ------------------------------------------------------------------ openapi
ERROR_HTTP_STATUS_MAP ==
    [VALIDATION_FAILED |-> 400, INVALID_INPUT |-> 400, MISSING_REQUIRED_FIELD |-> 400,
     INVALID_FORMAT |-> 400,
     AUTH_REQUIRED |-> 401, AUTH_INVALID_TOKEN |-> 401, AUTH_TOKEN_EXPIRED |-> 401,
     REFRESH_TOKEN_REUSE |-> 401, SESSION_EXPIRED |-> 401,
     AUTH_PERMISSION_DENIED |-> 403, AUTH_INSUFFICIENT_PRIVILEGES |-> 403,
     RESOURCE_NOT_FOUND |-> 404, USER_NOT_FOUND |-> 404, ENTITY_NOT_FOUND |-> 404,
     OAUTH_PROVIDER_UNKNOWN |-> 404,
     BUSINESS_RULE_VIOLATION |-> 422, INSUFFICIENT_BALANCE |-> 422,
     OPERATION_NOT_ALLOWED |-> 422,
     UNKNOWN_ERROR |-> 500, INTERNAL_ERROR |-> 500, DB_CONNECTION_ERROR |-> 500,
     DB_QUERY_ERROR |-> 500, DB_TRANSACTION_ERROR |-> 500,
     DB_CONSTRAINT_VIOLATION |-> 409, DB_DUPLICATE_ENTRY |-> 409,
     DB_INVALID_REFERENCE |-> 422, DB_MISSING_REQUIRED |-> 422]

\* ErrorCode(error_code) accepts every string (_missing_ makes a pseudo member), so
\* the ValueError branch is not taken; ERROR_HTTP_STATUS_MAP.get(error_enum, 500).
StatusOf(error_code) ==
    IF error_code \in DOMAIN ERROR_HTTP_STATUS_MAP THEN ERROR_HTTP_STATUS_MAP[error_code]
    ELSE 500

Digits == <<"0", "1", "2", "3", "4", "5", "6", "7", "8", "9">>

\* str() of a non-negative int.
RECURSIVE str(_)
str(n) == IF n < 10 THEN Digits[n + 1] ELSE str(n \div 10) \o Digits[(n % 10) + 1]

\* sep.join(items)
RECURSIVE join(_, _)
join(sep, items) ==
    IF items = <<>> THEN ""
    ELSE IF Len(items) = 1 THEN items[1]
    ELSE items[1] \o sep \o join(sep, Tail(items))

_get_status_description(status_code, error_codes) ==
    LET base_desc ==
            CASE status_code = 400 -> "Bad Request - Validation or input errors"
              [] status_code = 401 -> "Unauthorized - Authentication required"
              [] status_code = 403 -> "Forbidden - Insufficient permissions"
              [] status_code = 404 -> "Not Found - Resource not found"
              [] status_code = 409 -> "Conflict - Resource conflict (e.g., duplicate entry)"
              [] status_code = 422 -> "Unprocessable Entity - Business logic errors"
              [] status_code = 500 -> "Internal Server Error - Server errors"
              [] OTHER -> "HTTP " \o str(status_code)
    IN base_desc \o ". Possible error codes: " \o join(", ", error_codes)

descriptions ==
    [VALIDATION_FAILED |-> "Request validation failed",
     USER_NOT_FOUND |-> "User not found",
     AUTH_REQUIRED |-> "Authentication required",
     AUTH_PERMISSION_DENIED |-> "Permission denied",
     DB_DUPLICATE_ENTRY |-> "Duplicate entry in database",
     BUSINESS_RULE_VIOLATION |-> "Business rule violated"]

_get_default_error_description_without_table(error_code) == "Error: " \o error_code

_get_default_error_description(error_code) ==
    IF error_code \in DOMAIN descriptions THEN descriptions[error_code]
    ELSE "Error: " \o error_code

example_details ==
    [VALIDATION_FAILED |->
         [field_errors |-> <<[field |-> "email", message |-> "invalid email format",
                              input |-> "not-an-email"]>>],
     USER_NOT_FOUND |-> [resource |-> "user", resource_id |-> 123],
     DB_DUPLICATE_ENTRY |->
         [table |-> "users", field |-> "email", duplicate_value |-> "user@example.com"],
     AUTH_PERMISSION_DENIED |-> [required_permission |-> "admin.users.delete"]]

\* {} is <<>>.
_get_example_details(error_code) ==
    IF error_code \in DOMAIN example_details THEN example_details[error_code] ELSE <<>>

\* error_code.lower().replace("_", "-") for the codes of CodeOrder, position by
\* position.
ExampleNames ==
    <<"", "auth-permission-denied", "auth-required", "business-rule-violation",
      "cache-error", "custom-code", "custom-error-1", "db-connection-error",
      "db-constraint-violation", "db-duplicate-entry", "db-invalid-reference",
      "db-missing-required", "db-query-error", "db-transaction-error", "http-exception",
      "internal-error", "invalid-format", "invalid-input", "network-error", "pos-code",
      "rate-limited", "rate-limit-exceeded", "resource-conflict", "resource-not-found",
      "timeout-error", "unknown-error", "user-not-found", "validation-failed",
      "custom-error-1">>

example_name(error_code) == ExampleNames[Index(error_code)]

\* The dict built by the loop: a later code with the same example name replaces
\* the earlier entry.
_generate_examples(error_codes, custom_descriptions) ==
    [name \in {example_name(c) : c \in Range(error_codes)} |->
        LET hits == {i \in 1..Len(error_codes) : example_name(error_codes[i]) = name}
            error_code == error_codes[CHOOSE i \in hits : \A j \in hits : j <= i]
            description ==
                IF error_code \in DOMAIN custom_descriptions
                THEN custom_descriptions[error_code]
                ELSE _get_default_error_description(error_code)
        IN [summary |-> error_code \o " example",
            description |-> description,
            value |-> [error |-> [code |-> error_code,
                                  message |-> description,
                                  details |-> _get_example_details(error_code),
                                  timestamp |-> "2024-01-08T12:00:00Z",
                                  request_id |-> "req_abc123"]]]]

\* The codes of one status group, in the order the loop appended them.
status_group(error_codes, status_code) ==
    SelectSeq(error_codes, LAMBDA c : StatusOf(c) = status_code)

_generate_openapi_responses_always_500(error_codes, custom_descriptions) ==
    [key \in {"500"} |->
        [description |-> _get_status_description(500, status_group(error_codes, 500)),
         enum |-> status_group(error_codes, 500),
         examples |-> _generate_examples(status_group(error_codes, 500),
                                         custom_descriptions)]]

_generate_openapi_responses_single_group(error_codes, custom_descriptions) ==
    [key \in {str(StatusOf(c)) : c \in Range(error_codes)} |->
        [description |-> _get_status_description(500, error_codes),
         enum |-> error_codes,
         examples |-> _generate_examples(error_codes, custom_descriptions)]]

\* error_codes is the set in the order `for error_code in error_codes` enumerates
\* it. Of each response only the parts that vary are kept: the description, the
\* enum of schema.properties.error.properties.code, and the examples.
_generate_openapi_responses(error_codes, custom_descriptions) ==
    LET statuses == {StatusOf(c) : c \in Range(error_codes)}
    IN [key \in {str(st) : st \in statuses} |->
           LET status_code == CHOOSE st \in statuses : str(st) = key
               codes == status_group(error_codes, status_code)
           IN [description |-> _get_status_description(status_code, codes),
               enum |-> codes,
               examples |-> _generate_examples(codes, custom_descriptions)]]

openapi_error_codes_excluding_first(analysis, additional_errors, exclude_errors) ==
    (Range(analysis.error_codes) \ Range(exclude_errors)) \cup Range(additional_errors)

\* openapi_errors: set(analysis["error_codes"]), update(additional_errors), then
\* -= set(exclude_errors); None and [] are both <<>>.
openapi_error_codes(analysis, additional_errors, exclude_errors) ==
    (Range(analysis.error_codes) \cup Range(additional_errors)) \ Range(exclude_errors)

reversed(seq) == [i \in 1..Len(seq) |-> seq[Len(seq) + 1 - i]]

\* Orders in which a set of strings may be enumerated (string hashing is
\* randomised per process): the ascending and the descending one stand for them.
Enumerations(S) == {sorted(S), reversed(sorted(S))}

\* The function before openapi_errors decorated it.
NoWrapper == [_openapi_error_responses |-> NoneStr]

\* The attributes the decorator sets, with the arguments it was given.
Wrapper(analysis, additional_errors, exclude_errors, custom_descriptions, order) ==
    [additional_errors |-> additional_errors,
     exclude_errors |-> exclude_errors,
     custom_descriptions |-> custom_descriptions,
     _error_analysis |-> analysis,
     _openapi_error_responses |-> _generate_openapi_responses(order, custom_descriptions)]

\* ------------------------------------------------------------------ instances
\* ErrorAnalyzer.__init__: every field is created for the one object (the set and
\* the lists are fresh objects, no class attribute or default argument holds
\* them). pc and result are the position and the return value of its analyze().
ErrorAnalyzer(func, depth, decorators) ==
    [function |-> func, max_depth |-> depth, analyze_decorators |-> decorators,
     current_depth |-> 0, errors |-> {}, error_details |-> <<>>,
     visited_functions |-> {}, decorator_errors |-> <<>>,
     stack |-> <<>>, raised |-> NoneStr, truncated |-> FALSE,
     walks |-> [f \in FunctionNames |-> 0], reached |-> FALSE,
     pc |-> "idle", result |-> <<>>]

\* An exception in flight unwinds every activation and leaves analyze().
settle(s, next_pc) ==
    IF s.raised # NoneStr
    THEN [s EXCEPT !.stack = <<>>, !.raised = NoneStr, !.pc = "raised"]
    ELSE [s EXCEPT !.pc = next_pc]

\* One step of an analyzer object on its own fields: the start of analyze(), a
\* visitor on the current node, or the return of the innermost activation.
step(a) ==
    IF a.pc = "idle"
    THEN LET s0 == reset_state(a)
             s1 == IF a.analyze_decorators THEN _analyze_decorators(s0, a.function) ELSE s0
         IN settle(_analyze_function(s1, a.function, TRUE), "walking")
    ELSE LET top == a.stack[Len(a.stack)]
             nodes == TreeNodes(top.func)
             advanced == [a EXCEPT !.stack[Len(a.stack)].idx = @ + 1]
         IN IF top.idx <= Len(nodes)
            THEN settle(IF nodes[top.idx].t = "Raise"
                        THEN visit_Raise(advanced, nodes[top.idx])
                        ELSE visit_Call(advanced, nodes[top.idx]),
                        "walking")
            ELSE LET s == [a EXCEPT
                             !.stack = SubSeq(@, 1, Len(@) - 1),
                             !.current_depth =
                                 IF top.entered /\ ~top.is_main THEN @ - 1 ELSE @]
                 IN IF top.is_main
                    THEN [s EXCEPT !.pc = "done", !.result = <<Result(s)>>]
                    ELSE s

\* The fields live in one class-level object shared by the instances.
StoreSharingErrors(objects, i, a) ==
    [j \in DOMAIN objects |->
        IF j = i THEN a
        ELSE [objects[j] EXCEPT !.errors = a.errors, !.error_details = a.error_details]]

\* A write to self.<field> changes the fields of that object only.
Store(objects, i, a) == [objects EXCEPT ![i] = a]

\* ------------------------------------------------------------------ inputs
CodeValues ==
    {Constant("CUSTOM_CODE"), Constant(""),
     Attribute(Name("ErrorCode", 2), "INVALID_INPUT"),
     Attribute(Name("MyCodes", 2), "INVALID_INPUT"),
     Attribute(Attribute(Name("codes", 2), "ErrorCode"), "INVALID_INPUT"),
     Call(Name("ErrorCode", 2), <<Constant("CUSTOM_CODE")>>, <<>>, 2),
     Call(Name("ErrorCode", 2), <<Constant("")>>, <<>>, 2),
     Call(Name("make_code", 2), <<Constant("CUSTOM_CODE")>>, <<>>, 2),
     Name("some_code", 2), IntConstant(404)}

KeywordLists ==
    {<<>>, <<keyword("message", Constant("kw message"))>>,
     <<keyword("message", Constant(""))>>, <<keyword("message", Name("m", 2))>>,
     <<keyword("status_code", IntConstant(404)), keyword("detail", Constant("gone"))>>,
     <<keyword("status_code", IntConstant(404)), keyword("code", Constant("CUSTOM_CODE"))>>}
    \cup {<<keyword("code", v)>> : v \in CodeValues}

ArgLists ==
    {<<>>, <<Constant("msg")>>, <<Constant("")>>, <<IntConstant(418)>>,
     <<Call(Name("ErrorCode", 2), <<Constant("POS_CODE")>>, <<>>, 2)>>,
     <<Constant("msg"), Call(Name("ErrorCode", 2), <<Name("v", 2)>>, <<>>, 2)>>}

RaiseExprs ==
    {Call(Name(c, 2), a, k, 2) :
        c \in app_error_classes \cup {"ValueError"}, a \in ArgLists, k \in KeywordLists}
    \cup {NoNode, Name("e", 2),
          Call(Attribute(Name("errors", 2), "NotFoundError"), <<>>, <<>>, 2),
          Call(Attribute(Name("session", 2), "AppError"), <<Constant("msg")>>, <<>>, 2)}

DefaultRaiseExpr == Ctor("NotFoundError", "user", 2)

AdditionalErrors ==
    {<<>>, <<"RATE_LIMITED">>, <<"CUSTOM_ERROR_1", "custom-error-1">>,
     <<"USER_NOT_FOUND", "RESOURCE_NOT_FOUND">>}

ExcludeErrors ==
    {<<>>, <<"RESOURCE_NOT_FOUND">>, <<"INTERNAL_ERROR">>,
     <<"RATE_LIMITED", "DB_QUERY_ERROR">>}

CustomDescriptions ==
    {[c \in {} |-> ""],
     [c \in {"RESOURCE_NOT_FOUND", "VALIDATION_FAILED"} |->
         IF c = "RESOURCE_NOT_FOUND" THEN "The user you're looking for doesn't exist"
         ELSE "Your input is invalid"],
     [c \in {"USER_NOT_FOUND", "RATE_LIMITED"} |->
         IF c = "USER_NOT_FOUND" THEN "No such user" ELSE ""]}

\* ------------------------------------------------------------------ actions
Init ==
    /\ function \in FunctionNames
    /\ max_depth \in (0..MaxDepthBound) \cup {DefaultMaxDepth}
    /\ analyze_decorators \in BOOLEAN
    /\ raise_expr \in (IF function = "raise_func" THEN RaiseExprs ELSE {DefaultRaiseExpr})
    /\ current_depth = 0
    /\ errors = {}
    /\ error_details = <<>>
    /\ visited_functions = {}
    /\ decorator_errors = <<>>
    /\ pc = "idle"
    /\ stack = <<>>
    /\ results = <<>>
    /\ runs = 0
    /\ truncated = FALSE
    /\ walks = [f \in FunctionNames |-> 0]
    /\ steps = 0
    /\ reached = FALSE
    /\ wrapper = NoWrapper
    /\ instances = <<>>

\* Store the analyzer record; an exception in flight unwinds every activation and
\* leaves analyze().
Commit(s, next_pc) ==
    /\ current_depth' = s.current_depth
    /\ errors' = s.errors
    /\ error_details' = s.error_details
    /\ visited_functions' = s.visited_functions
    /\ decorator_errors' = s.decorator_errors
    /\ truncated' = s.truncated
    /\ walks' = s.walks
    /\ reached' = (s.reached \/ s.current_depth >= s.max_depth)
    /\ stack' = IF s.raised # NoneStr THEN <<>> ELSE s.stack
    /\ pc' = IF s.raised # NoneStr THEN "raised" ELSE next_pc

Top == stack[Len(stack)]

AtNode == pc = "walking" /\ stack # <<>> /\ Top.idx <= Len(TreeNodes(Top.func))

Node == TreeNodes(Top.func)[Top.idx]

\* Self with the walk of the innermost activation moved past the current node.
Advanced == [Self EXCEPT !.stack[Len(stack)].idx = @ + 1]

\* analyze() from its first line to the start of the main function's walk.
Analyze ==
    /\ pc \in {"idle", "done", "raised"}
    /\ runs < MaxRuns
    /\ runs' = runs + 1
    /\ steps' = 0
    /\ wrapper = NoWrapper
    /\ LET s0 == [reset_state(Self) EXCEPT !.truncated = FALSE, !.reached = FALSE,
                                           !.walks = [f \in FunctionNames |-> 0]]
           s1 == IF analyze_decorators THEN _analyze_decorators(s0, function) ELSE s0
       IN Commit(_analyze_function(s1, function, TRUE), "walking")
    /\ UNCHANGED <<function, max_depth, analyze_decorators, raise_expr, results,
                   wrapper, instances>>

VisitRaise ==
    /\ AtNode
    /\ Node.t = "Raise"
    /\ Commit(visit_Raise(Advanced, Node), "walking")
    /\ steps' = steps + 1
    /\ UNCHANGED <<function, max_depth, analyze_decorators, raise_expr, results, runs,
                   wrapper, instances>>

VisitCall ==
    /\ AtNode
    /\ Node.t = "Call"
    /\ Commit(visit_Call(Advanced, Node), "walking")
    /\ steps' = steps + 1
    /\ UNCHANGED <<function, max_depth, analyze_decorators, raise_expr, results, runs,
                   wrapper, instances>>

\* The innermost _analyze_function returns; when it is the main one, analyze()
\* builds its result and returns.
AnalyzeFunctionReturn ==
    /\ pc = "walking"
    /\ stack # <<>>
    /\ Top.idx > Len(TreeNodes(Top.func))
    /\ LET s == [Self EXCEPT
                   !.stack = SubSeq(@, 1, Len(@) - 1),
                   !.current_depth = IF Top.entered /\ ~Top.is_main THEN @ - 1 ELSE @]
       IN /\ Commit(s, IF Top.is_main THEN "done" ELSE "walking")
          /\ results' = IF Top.is_main THEN Append(results, Result(s)) ELSE results
    /\ steps' = steps + 1
    /\ UNCHANGED <<function, max_depth, analyze_decorators, raise_expr, runs,
                   wrapper, instances>>

\* openapi_errors(additional_errors, exclude_errors, custom_descriptions)(function):
\* the decorator builds ErrorAnalyzer(func) with the default options, runs
\* analyze() once and attaches the responses; the analyzer is not used again.
OpenapiErrors ==
    /\ pc = "done"
    /\ runs = 1
    /\ max_depth = DefaultMaxDepth
    /\ analyze_decorators
    /\ wrapper = NoWrapper
    /\ \E additional_errors \in AdditionalErrors, exclude_errors \in ExcludeErrors,
          custom_descriptions \in CustomDescriptions :
          \E order \in Enumerations(openapi_error_codes(results[1], additional_errors,
                                                        exclude_errors)) :
              wrapper' = Wrapper(results[1], additional_errors, exclude_errors,
                                 custom_descriptions, order)
    /\ UNCHANGED <<function, max_depth, analyze_decorators, raise_expr, current_depth,
                   errors, error_details, visited_functions, decorator_errors, pc, stack,
                   results, runs, truncated, walks, steps, reached, instances>>

Next == Analyze \/ VisitRaise \/ VisitCall \/ AnalyzeFunctionReturn \/ OpenapiErrors

Spec == Init /\ [][Next]_vars

\* ------------------------------------------------------------------ two analyzers
\* Two ErrorAnalyzer objects, each built on its own target with its own options,
\* whose analyze() runs are interleaved step by step (two threads, or two
\* generators driven in turn). The single analyzer of Spec stays idle.
InstanceFunctions ==
    {"raise_func", "db_func", "decorated_func", "func_a", "session_execute",
     "method_with_text"}

InstanceDepths == {0, DefaultMaxDepth}

InstanceRaiseExprs ==
    {DefaultRaiseExpr, Name("e", 2),
     Call(Name("AppError", 2), <<Constant("msg")>>, <<keyword("code", Constant(""))>>, 2)}

InitTwo ==
    /\ function = "empty_func"
    /\ max_depth = DefaultMaxDepth
    /\ analyze_decorators = TRUE
    /\ raise_expr \in InstanceRaiseExprs
    /\ current_depth = 0
    /\ errors = {}
    /\ error_details = <<>>
    /\ visited_functions = {}
    /\ decorator_errors = <<>>
    /\ pc = "idle"
    /\ stack = <<>>
    /\ results = <<>>
    /\ runs = 0
    /\ truncated = FALSE
    /\ walks = [f \in FunctionNames |-> 0]
    /\ steps = 0
    /\ reached = FALSE
    /\ wrapper = NoWrapper
    /\ instances \in
           [1..2 -> {ErrorAnalyzer(f, d, o) :
                        f \in InstanceFunctions, d \in InstanceDepths, o \in BOOLEAN}]

InstanceUnchanged ==
    UNCHANGED <<function, max_depth, analyze_decorators, raise_expr, current_depth,
                errors, error_details, visited_functions, decorator_errors, pc, stack,
                results, runs, truncated, walks, steps, reached, wrapper>>

\* analyze() of object i from its first line to the start of the walk.
InstanceAnalyze(i) ==
    /\ instances[i].pc = "idle"
    /\ instances' = Store(instances, i, step(instances[i]))
    /\ InstanceUnchanged

\* visit_Raise or visit_Call of object i on its current node.
InstanceVisit(i) ==
    /\ instances[i].pc = "walking"
    /\ LET top == instances[i].stack[Len(instances[i].stack)]
       IN top.idx <= Len(TreeNodes(top.func))
    /\ instances' = Store(instances, i, step(instances[i]))
    /\ InstanceUnchanged

\* The innermost _analyze_function of object i returns; analyze() returns its
\* result when that was the main one.
InstanceReturn(i) ==
    /\ instances[i].pc = "walking"
    /\ LET top == instances[i].stack[Len(instances[i].stack)]
       IN top.idx > Len(TreeNodes(top.func))
    /\ instances' = Store(instances, i, step(instances[i]))
    /\ InstanceUnchanged

NextTwo == \E i \in 1..2 : InstanceAnalyze(i) \/ InstanceVisit(i) \/ InstanceReturn(i)

TwoAnalyzers == InitTwo /\ [][NextTwo]_vars

TypeOK ==
    /\ errors \subseteq Range(CodeOrder)
    /\ pc \in {"idle", "walking", "done", "raised"}
    /\ current_depth \in 0..MaxDepthBound
    /\ max_depth \in (0..MaxDepthBound) \cup {DefaultMaxDepth}
    /\ runs \in 0..MaxRuns

\* ------------------------------------------------------------------ claims
\* The dictionary returned by the run that has just finished.
Last == results[Len(results)]

Done == pc = "done"

DetailCodes(details) == {details[i].code : i \in 1..Len(details)}

DecoratorCodes(decos) == UNION {Range(decos[i].possible_errors) : i \in 1..Len(decos)}

\* The recognised raises of a function's tree: the occurrences one walk records.
RaiseInfos(f) ==
    {i \in 1..Len(TreeNodes(f)) :
        /\ TreeNodes(f)[i].t = "Raise"
        /\ TreeNodes(f)[i].exc.t # "None"
        /\ _extract_error_info(TreeNodes(f)[i].exc) # NoInfo}

RaiseCodes(f) == {_extract_error_info(TreeNodes(f)[i].exc).code : i \in RaiseInfos(f)}

\* The functions a function calls by plain name.
Callees(f) ==
    {Binding(TreeNodes(f)[i]) : i \in 1..Len(TreeNodes(f))} \ {NoneStr}

\* The functions within d calls of f.
RECURSIVE Reach(_, _)
Reach(f, d) ==
    IF d = 0 THEN {f} ELSE {f} \cup UNION {Reach(g, d - 1) : g \in Callees(f)}

\* C1: analyze() never lets an exception escape; whatever fails inside is
\* absorbed and a result dictionary is returned.
C1_NoExceptionEscapes == pc # "raised"

\* The codes the call-shape patterns predict for the call nodes of the target's
\* tree, or its module of origin predicts when its source is unavailable.
PredictedCodes(f) ==
    IF Function(f).source = "ok"
    THEN UNION {_analyze_call_context({}, TreeNodes(f)[i]) :
                   i \in {j \in 1..Len(TreeNodes(f)) : TreeNodes(f)[j].t = "Call"}}
    ELSE _analyze_builtin_function({}, f)

\* C2 as stated: in every returned result, error_codes is exactly the code values
\* of error_details united with the possible_errors of decorator_errors.
C2_CodesExactlyRecorded ==
    Done => Range(Last.error_codes) =
               DetailCodes(Last.error_details) \cup DecoratorCodes(Last.decorator_errors)

\* C2 amended: error_codes is exactly those recorded codes together with the codes
\* predicted by the call-shape patterns and the module-of-origin fallback.
C2_CodesRecordedOrPredicted ==
    Done => Range(Last.error_codes) =
               DetailCodes(Last.error_details) \cup DecoratorCodes(Last.decorator_errors)
                   \cup PredictedCodes(function)

C2_Witness ==
    /\ Done
    /\ function = "db_func"
    /\ "CUSTOM_CODE" \in Range(Last.error_codes)
    /\ "DB_QUERY_ERROR" \in Range(Last.error_codes)
    /\ "VALIDATION_FAILED" \in Range(Last.error_codes)

\* C3: when every function within max_depth plain-name calls of the target has
\* its source and nothing lies deeper, every recognised raise of each of those
\* functions has its code in error_codes.
C3_CalleeRaisesReported ==
    (/\ Done
     /\ Reach(function, max_depth) = Reach(function, max_depth + 1)
     /\ \A f \in Reach(function, max_depth) : Function(f).source = "ok")
    => \A f \in Reach(function, max_depth) : RaiseCodes(f) \subseteq Range(Last.error_codes)

\* C4: max_depth_reached is false exactly when no descent into a callee was
\* refused by the depth cap, for every max_depth including 0.
C4_FlagIffTruncated == Done => (Last.max_depth_reached = FALSE <=> ~truncated)

\* C5: a returned result dictionary never changes afterwards, at no step of a
\* later analyze() on the same analyzer.
C5_ReturnedResultUnchanged == \A i \in 1..Len(results) : View(i) = results[i]

\* C6: two analyze() runs on the unchanged target with the same options return
\* equal error_codes and equal error_details, entry for entry and in order.
C6_Idempotent ==
    \A i, j \in 1..Len(results) :
        /\ results[i].error_codes = results[j].error_codes
        /\ results[i].error_details = results[j].error_details

C6_Witness ==
    /\ Len(results) = 2
    /\ function = "func_a"
    /\ Len(results[2].error_details) = 1
    /\ results[2].error_codes = <<"VALIDATION_FAILED">>

RECURSIVE WalkedOccurrences(_)
WalkedOccurrences(S) ==
    IF S = {} THEN 0
    ELSE LET f == CHOOSE g \in S : TRUE
         IN Cardinality(RaiseInfos(f)) + WalkedOccurrences(S \ {f})

\* The functions whose body the current run has walked.
Walked == {f \in FunctionNames : walks[f] > 0}

\* Steps a run takes when it walks each body of S once: a visit per node, a
\* return per walk, and a return per call that was entered and left at a guard.
RECURSIVE RunStepBound(_)
RunStepBound(S) ==
    IF S = {} THEN 0
    ELSE LET f == CHOOSE g \in S : TRUE
         IN 2 * Len(TreeNodes(f)) + 1 + RunStepBound(S \ {f})

\* C7: a run terminates, also on a cyclic call graph (while it walks, a visitor or
\* return step is always possible, and it ends within the steps one walk of every
\* walked body takes); within a run each function's
\* body is walked at most once and error_details holds no more occurrences than
\* one visit of each walked function produces.
C7_CycleSafe ==
    /\ \A f \in FunctionNames : walks[f] <= 1
    /\ Len(error_details) <= WalkedOccurrences(Walked)
    /\ steps <= RunStepBound(Walked) + 1
    /\ pc = "walking" => stack # <<>> /\ (AtNode => Node.t \in {"Raise", "Call"})

C7_Witness ==
    /\ Done
    /\ function = "func_a"
    /\ Callees("func_a") = {"func_b"}
    /\ Callees("func_b") = {"func_a"}
    /\ walks["func_a"] = 1
    /\ Len(error_details) = 1

\* C8: every entry of error_details has a non-empty code, whatever the
\* constructor's arguments are.
C8_CodeNeverEmpty == \A i \in 1..Len(error_details) : error_details[i].code # ""

\* The target is raise_func, whose one statement raises a call of a recognised
\* constructor, and its analysis has returned.
RaisedCtor == _get_function_name(raise_expr.func)

RecognisedRaiseDone ==
    /\ Done
    /\ function = "raise_func"
    /\ raise_expr.t = "Call"
    /\ _is_app_error_class(RaisedCtor)

CodeKeyword == raise_expr.keywords[FirstKeyword(raise_expr.keywords, "code")].value

HasCodeKeyword == FirstKeyword(raise_expr.keywords, "code") # 0

HasPositionalErrorCode ==
    \E i \in 1..Len(raise_expr.args) :
        /\ raise_expr.args[i].t = "Call"
        /\ _get_function_name(raise_expr.args[i].func) = "ErrorCode"

\* A `code` keyword that is a variable or a non-string literal.
CodeKeywordNotLiteralForm ==
    /\ HasCodeKeyword
    /\ \/ CodeKeyword.t = "Name"
       \/ CodeKeyword.t = "Constant" /\ CodeKeyword.type # "str"

NoExtractableCode ==
    \/ ~HasCodeKeyword /\ ~HasPositionalErrorCode
    \/ CodeKeywordNotLiteralForm

\* C9 as stated: a recognised constructor raised without a statically extractable
\* code gives the occurrence the constructor's default code from the table.
C9_DefaultWhenNoExtractableCode ==
    (RecognisedRaiseDone /\ NoExtractableCode)
    => Last.error_details[1].code = default_codes[RaisedCtor]

\* C9 amended: for a recognised constructor other than HTTPException, no `code`
\* keyword and no positional ErrorCode(...) gives the constructor's default code;
\* a `code` keyword that is not a recognised literal form gives UNKNOWN_ERROR.
C9_DefaultWhenNoCodeArgument ==
    (RecognisedRaiseDone /\ RaisedCtor # "HTTPException")
    => /\ (~HasCodeKeyword /\ ~HasPositionalErrorCode)
              => Last.error_details[1].code = default_codes[RaisedCtor]
       /\ CodeKeywordNotLiteralForm => Last.error_details[1].code = "UNKNOWN_ERROR"

C9_Witness ==
    /\ Done
    /\ function = "raise_func"
    /\ raise_expr = Call(Name("NotFoundError", 2), <<Constant("msg")>>, <<>>, 2)
    /\ Last.error_details[1].code = "RESOURCE_NOT_FOUND"

\* A `code` keyword that is a string literal, bare or wrapped in ErrorCode(...).
ExplicitLiteralCode ==
    /\ HasCodeKeyword
    /\ \/ CodeKeyword.t = "Constant" /\ CodeKeyword.type = "str"
       \/ /\ CodeKeyword.t = "Call"
          /\ CodeKeyword.func = Name("ErrorCode", 2)
          /\ Len(CodeKeyword.args) = 1
          /\ CodeKeyword.args[1].t = "Constant"
          /\ CodeKeyword.args[1].type = "str"

TheLiteralCode == IF CodeKeyword.t = "Constant" THEN CodeKeyword.s ELSE CodeKeyword.args[1].s

LiteralCodeReported ==
    /\ Last.error_details[1].code = TheLiteralCode
    /\ TheLiteralCode \in Range(Last.error_codes)
    /\ default_codes[RaisedCtor] \in Range(Last.error_codes)
           => default_codes[RaisedCtor] = TheLiteralCode

\* C10 as stated: a recognised constructor raised with an explicit string-literal
\* code has that literal as the occurrence's code and in error_codes, and the
\* raise does not add the constructor's default code.
C10_ExplicitLiteralWins ==
    (RecognisedRaiseDone /\ ExplicitLiteralCode) => LiteralCodeReported

\* C10 amended: the same, for a recognised constructor other than HTTPException.
C10_ExplicitLiteralWinsExceptHttp ==
    (RecognisedRaiseDone /\ ExplicitLiteralCode /\ RaisedCtor # "HTTPException")
    => LiteralCodeReported

C10_Witness ==
    /\ Done
    /\ function = "raise_func"
    /\ raise_expr =
           Call(Name("ValidationError", 2), <<Constant("msg")>>,
                <<keyword("code", Call(Name("ErrorCode", 2), <<Constant("CUSTOM_CODE")>>,
                                       <<>>, 2))>>, 2)
    /\ Last.error_codes = <<"CUSTOM_CODE">>

\* The raise statements of a function's tree whose expression is a plain name:
\* an error value bound earlier, raised again.
ReraiseNodes(f) ==
    {i \in 1..Len(TreeNodes(f)) :
        TreeNodes(f)[i].t = "Raise" /\ TreeNodes(f)[i].exc.t = "Name"}

UnknownOccurrences(details) == {i \in 1..Len(details) : details[i].type = "unknown"}

DB_codes ==
    {"DB_CONNECTION_ERROR", "DB_QUERY_ERROR", "DB_TRANSACTION_ERROR",
     "DB_CONSTRAINT_VIOLATION", "DB_DUPLICATE_ENTRY", "DB_INVALID_REFERENCE",
     "DB_MISSING_REQUIRED"}

SourceUnavailable(f) == Function(f).source \in {"OSError", "TypeError"}

\* C12: for a target whose source cannot be retrieved and whose module name
\* contains "sqlalchemy", analyze() returns normally and error_codes is non-empty
\* with DB_* members only.
C12_PersistenceFallback ==
    (/\ runs > 0
     /\ SourceUnavailable(function)
     /\ Function(function).module \in ModulesContainingSqlalchemy)
    => /\ pc # "raised"
       /\ Done => /\ Last.error_codes # <<>>
                  /\ Range(Last.error_codes) \subseteq DB_codes

Decorated == wrapper # NoWrapper

Responses == wrapper._openapi_error_responses

\* The codes listed in the enum of some response group.
EnumCodes(responses) == UNION {Range(responses[key].enum) : key \in DOMAIN responses}

\* C13: openapi_errors adds additional_errors, then removes exclude_errors: no
\* excluded code is in any group, also when it was discovered or is listed as
\* additional, and the groups hold exactly the discovered and additional codes
\* that are not excluded.
C13_AddThenExclude ==
    Decorated
    => /\ \A c \in Range(wrapper.exclude_errors) : c \notin EnumCodes(Responses)
       /\ \A c \in Range(wrapper.additional_errors) \ Range(wrapper.exclude_errors) :
              c \in EnumCodes(Responses)
       /\ EnumCodes(Responses) =
              (Range(wrapper._error_analysis.error_codes)
                   \cup Range(wrapper.additional_errors))
                  \ Range(wrapper.exclude_errors)

C13_Witness ==
    /\ Decorated
    /\ function = "raise_func"
    /\ wrapper._error_analysis.error_codes = <<"RESOURCE_NOT_FOUND">>
    /\ wrapper.additional_errors = <<"RATE_LIMITED">>
    /\ wrapper.exclude_errors = <<"RESOURCE_NOT_FOUND">>
    /\ EnumCodes(Responses) = {"RATE_LIMITED"}

\* The codes handed to _generate_openapi_responses.
InputCodes ==
    openapi_error_codes(wrapper._error_analysis, wrapper.additional_errors,
                        wrapper.exclude_errors)

Occurrences(seq, x) == Cardinality({i \in 1..Len(seq) : seq[i] = x})

\* C14: every input code is listed exactly once in the group keyed by the decimal
\* string of its status (500 when the status map has no entry for it) and in no
\* other group; the keys are exactly the statuses some input code maps to, so no
\* codes give an empty map.
C14_OneGroupPerCode ==
    Decorated
    => /\ DOMAIN Responses = {str(StatusOf(c)) : c \in InputCodes}
       /\ EnumCodes(Responses) \subseteq InputCodes
       /\ \A c \in InputCodes : \A key \in DOMAIN Responses :
              Occurrences(Responses[key].enum, c)
                  = IF key = str(StatusOf(c)) THEN 1 ELSE 0
       /\ InputCodes = {} => DOMAIN Responses = {}

C14_Witness ==
    /\ Decorated
    /\ function = "decorated_func"
    /\ wrapper.additional_errors = <<"RATE_LIMITED">>
    /\ wrapper.exclude_errors = <<>>
    /\ DOMAIN Responses = {"401", "403", "404", "500"}
    /\ Range(Responses["500"].enum) = {"RATE_LIMITED", "RATE_LIMIT_EXCEEDED"}
    /\ Responses["404"].enum = <<"RESOURCE_NOT_FOUND">>

\* The description an example of a code is to carry.
ExpectedDescription(error_code) ==
    IF error_code \in DOMAIN wrapper.custom_descriptions
    THEN wrapper.custom_descriptions[error_code]
    ELSE IF error_code \in DOMAIN descriptions THEN descriptions[error_code]
    ELSE "Error: " \o error_code

\* C15: the description and the message of every example are the
\* custom_descriptions entry of the example's code when there is one, else the
\* entry of the default description table, else "Error: <code>".
C15_DescriptionPrecedence ==
    Decorated
    => \A key \in DOMAIN Responses : \A name \in DOMAIN Responses[key].examples :
           LET example == Responses[key].examples[name]
           IN /\ example.description = ExpectedDescription(example.value.error.code)
              /\ example.value.error.message
                     = ExpectedDescription(example.value.error.code)

C15_Witness ==
    /\ Decorated
    /\ function = "decorated_func"
    /\ "RESOURCE_NOT_FOUND" \in DOMAIN wrapper.custom_descriptions
    /\ wrapper.additional_errors = <<>>
    /\ wrapper.exclude_errors = <<>>
    /\ Responses["404"].examples["resource-not-found"].description
           = "The user you're looking for doesn't exist"
    /\ Responses["401"].examples["auth-required"].description = "Authentication required"
    /\ Responses["500"].examples["rate-limit-exceeded"].value.error.message
           = "Error: RATE_LIMIT_EXCEEDED"

\* The name a decorator of the parsed definition is written with: the dotted name
\* itself, or the callee of a decorator call.
DecoratorIdent(node) ==
    join(".", _get_attr_chain(IF node.t = "Call" THEN node.func ELSE node))

\* The target's decorators whose name is in the marker table, in decorator order.
MarkerDecorators(f) ==
    SelectSeq([i \in 1..Len(Function(f).decorator_list) |->
                  DecoratorIdent(Function(f).decorator_list[i])],
              LAMBDA name : name \in DOMAIN decorator_errors_table)

\* C16: with decorator analysis on, decorator_errors holds one entry per decorator
\* of the target whose name is in the marker table, in decorator order and with the
\* table's codes, those codes are in error_codes, and other decorators add nothing.
C16_MarkersRecorded ==
    (Done /\ analyze_decorators /\ Function(function).source = "ok")
    => /\ [i \in 1..Len(Last.decorator_errors) |-> Last.decorator_errors[i].decorator]
              = MarkerDecorators(function)
       /\ \A i \in 1..Len(Last.decorator_errors) :
              Last.decorator_errors[i].possible_errors
                  = decorator_errors_table[Last.decorator_errors[i].decorator]
       /\ \A i \in 1..Len(MarkerDecorators(function)) :
              Range(decorator_errors_table[MarkerDecorators(function)[i]])
                  \subseteq Range(Last.error_codes)

\* analyze() of an analyzer object run alone, from construction to its end.
RECURSIVE RunAlone(_)
RunAlone(a) == IF a.pc \in {"done", "raised"} THEN a ELSE RunAlone(step(a))

\* The object as its constructor call made it.
AsConstructed(a) == ErrorAnalyzer(a.function, a.max_depth, a.analyze_decorators)

\* C17: whatever the interleaving of the steps of two analyzers built separately,
\* each ends with the result and the fields it has when it runs alone, and while
\* one has not started its fields are as constructed, whatever the other did.
C17_InstancesIndependent ==
    \A i \in DOMAIN instances :
        /\ instances[i].pc \in {"done", "raised"}
               => instances[i] = RunAlone(AsConstructed(instances[i]))
        /\ instances[i].pc = "idle" => instances[i] = AsConstructed(instances[i])

C17_Witness ==
    /\ instances[1].function = "db_func"
    /\ instances[1].pc = "walking"
    /\ "DB_QUERY_ERROR" \in instances[1].errors
    /\ instances[2].function = "decorated_func"
    /\ instances[2].analyze_decorators
    /\ instances[2].pc = "done"
    /\ instances[2].result[1].error_codes =
           <<"AUTH_PERMISSION_DENIED", "AUTH_REQUIRED", "RATE_LIMIT_EXCEEDED",
             "RESOURCE_NOT_FOUND">>

\* A routine with source whose tree has no raise or call node and no decorator.
NoNodes(f) ==
    /\ Function(f).source = "ok"
    /\ TreeNodes(f) = <<>>
    /\ Function(f).decorator_list = <<>>
    /\ DecoratorLines(Function(f).source_lines) = <<>>

\* C18: a routine with no raise, call or decorator yields empty error_codes, empty
\* error_details and total_errors = 0; through openapi_errors its responses are a
\* map holding only what the caller added, the empty map when nothing was added.
C18_EmptyRoutine ==
    /\ (Done /\ NoNodes(function))
       => /\ Last.error_codes = <<>>
          /\ Last.error_details = <<>>
          /\ Last.total_errors = 0
    /\ (Decorated /\ NoNodes(function))
       => /\ EnumCodes(Responses)
                 = Range(wrapper.additional_errors) \ Range(wrapper.exclude_errors)
          /\ DOMAIN Responses \subseteq {"400", "401", "403", "404", "409", "422", "500"}
          /\ wrapper.additional_errors = <<>> => DOMAIN Responses = {}

C18_Witness ==
    /\ Decorated
    /\ function = "empty_func"
    /\ NoNodes("empty_func")
    /\ wrapper._error_analysis.total_errors = 0
    /\ wrapper.additional_errors = <<>>
    /\ DOMAIN Responses = {}

\* C19: error_codes of every returned result is in strictly ascending string order
\* (sorted, no duplicates), total_errors is its length, and the finished run's
\* error_codes lists exactly the codes the run discovered.
C19_SortedUnique ==
    /\ \A r \in 1..Len(results) :
           /\ \A i, j \in 1..Len(results[r].error_codes) :
                  i < j => Index(results[r].error_codes[i]) < Index(results[r].error_codes[j])
           /\ results[r].total_errors = Len(results[r].error_codes)
    /\ Done => Range(Last.error_codes) = errors

C19_Witness ==
    /\ Done
    /\ function = "db_func"
    /\ error_details[Len(error_details)].code = "CUSTOM_CODE"
    /\ Last.error_codes[1] = "CUSTOM_CODE"
    /\ Last.error_codes[Len(Last.error_codes)] = "VALIDATION_FAILED"
    /\ Last.total_errors = 9

\* C20: max_depth_reached of a result is true iff current_depth >= max_depth held
\* at some point of the run that produced it.
C20_FlagIffDepthReached == Done => (Last.max_depth_reached <=> reached)

C20_Witness ==
    /\ Done
    /\ max_depth = 0
    /\ reached
    /\ Last.max_depth_reached

\* C21: the depth cap and the visited check do not stop the top-level target: on
\* every analyze() call that finds the target's source, its body is walked once
\* from the first node to the last (also with max_depth = 0 and on a repeated
\* call), while a function other than the target is walked only when
\* max_depth > 0 and only at a depth within the cap.
TargetHasSource == Function(function).source = "ok" /\ Function(function).qualname # NoneStr

C21_TargetAlwaysWalked ==
    /\ (runs > 0 /\ TargetHasSource)
       => /\ pc \in {"walking", "done"}
          /\ walks[function] = 1
          /\ Done => steps = Len(TreeNodes(function)) + 1
    /\ \A f \in FunctionNames \ {function} : walks[f] > 0 => max_depth > 0
    /\ \A i \in 1..Len(stack) :
           (stack[i].entered /\ ~stack[i].is_main) => (max_depth > 0 /\ i - 1 <= max_depth)

C21_Witness ==
    /\ Done
    /\ runs = 2
    /\ max_depth = 0
    /\ function = "main_func"
    /\ walks["main_func"] = 1
    /\ walks["helper_func"] = 0
    /\ steps = 4
    /\ Last.error_codes = <<"RESOURCE_NOT_FOUND">>

\* The `code` keyword is a member access `<left>.MEMBER`.
CodeKeywordIsMemberAccess == HasCodeKeyword /\ CodeKeyword.t = "Attribute"

\* C22 as stated: a `code` keyword of the form Enum.MEMBER gives the occurrence
\* the code MEMBER, whatever stands on the left of the dot.
C22_AnyEnumMember ==
    (RecognisedRaiseDone /\ CodeKeywordIsMemberAccess)
    => Last.error_details[1].code = CodeKeyword.attr

\* C22 amended: for a recognised constructor other than HTTPException, a `code`
\* keyword ErrorCode.MEMBER (the bare name ErrorCode on the left) gives the code
\* MEMBER, in the occurrence and in error_codes; a member access on anything else
\* (another enum, a module-qualified ErrorCode) gives UNKNOWN_ERROR.
C22_ErrorCodeMemberOnly ==
    (RecognisedRaiseDone /\ CodeKeywordIsMemberAccess /\ RaisedCtor # "HTTPException")
    => IF CodeKeyword.value = Name("ErrorCode", 2)
       THEN /\ Last.error_details[1].code = CodeKeyword.attr
            /\ Last.error_codes = <<CodeKeyword.attr>>
       ELSE /\ Last.error_details[1].code = "UNKNOWN_ERROR"
            /\ Last.error_codes = <<"UNKNOWN_ERROR">>

C22_Witness ==
    /\ Done
    /\ function = "raise_func"
    /\ raise_expr =
           Call(Name("ValidationError", 2), <<Constant("msg")>>,
                <<keyword("code", Attribute(Name("ErrorCode", 2), "INVALID_INPUT"))>>, 2)
    /\ Last.error_details[1].code = "INVALID_INPUT"
    /\ Last.error_codes = <<"INVALID_INPUT">>

\* The first positional argument of the raised constructor is a string literal.
FirstArgIsStringLiteral ==
    /\ Len(raise_expr.args) > 0
    /\ raise_expr.args[1].t = "Constant"
    /\ raise_expr.args[1].type = "str"

MessageKeyword == raise_expr.keywords[FirstKeyword(raise_expr.keywords, "message")].value

MessageKeywordIsStringLiteral ==
    /\ FirstKeyword(raise_expr.keywords, "message") # 0
    /\ MessageKeyword.t = "Constant"
    /\ MessageKeyword.type = "str"

\* C23 as stated: the occurrence's message is the first positional argument when
\* that is a string literal, otherwise the string literal of the `message`
\* keyword, otherwise "Unknown error".
C23_MessagePrecedence ==
    RecognisedRaiseDone
    => Last.error_details[1].message =
           IF FirstArgIsStringLiteral THEN raise_expr.args[1].s
           ELSE IF MessageKeywordIsStringLiteral THEN MessageKeyword.s
           ELSE "Unknown error"

\* C23 amended: for a recognised constructor other than HTTPException the message
\* is the first positional argument when that is a non-empty string literal,
\* otherwise the `message` keyword when that is a non-empty string literal,
\* otherwise "Unknown error"; an HTTPException's message is the string literal of
\* its last literal `detail` keyword, "HTTP Error" without one.
C23_NonEmptyMessagePrecedence ==
    /\ (RecognisedRaiseDone /\ RaisedCtor # "HTTPException")
       => Last.error_details[1].message =
              IF FirstArgIsStringLiteral /\ raise_expr.args[1].s # ""
              THEN raise_expr.args[1].s
              ELSE IF MessageKeywordIsStringLiteral /\ MessageKeyword.s # ""
              THEN MessageKeyword.s
              ELSE "Unknown error"
    /\ (RecognisedRaiseDone /\ RaisedCtor = "HTTPException")
       => LET details == {i \in 1..Len(raise_expr.keywords) :
                              /\ raise_expr.keywords[i].arg = "detail"
                              /\ raise_expr.keywords[i].value.t = "Constant"
                              /\ raise_expr.keywords[i].value.type = "str"}
          IN Last.error_details[1].message =
                 IF details = {} THEN "HTTP Error"
                 ELSE raise_expr.keywords[CHOOSE i \in details :
                                              \A j \in details : j <= i].value.s

C23_Witness ==
    /\ Done
    /\ function = "raise_func"
    /\ raise_expr =
           Call(Name("AuthError", 2), <<IntConstant(418)>>,
                <<keyword("message", Constant("kw message"))>>, 2)
    /\ Last.error_details[1].message = "kw message"

\* The normalised text of a call matches a persistence-session shape.
PersistenceShape(node) ==
    \/ ContainsSessionDot(_get_call_string(node))
    \/ \E m \in sqlalchemy_methods : ContainsDotMethod(_get_call_string(node), m)

\* The call nodes of an activation that its walk has already visited.
VisitedCalls(frame) ==
    {TreeNodes(frame.func)[i] :
        i \in {j \in 1..Len(TreeNodes(frame.func)) :
                  j < frame.idx /\ TreeNodes(frame.func)[j].t = "Call"}}

ConnectionQueryTransaction == {"DB_CONNECTION_ERROR", "DB_QUERY_ERROR", "DB_TRANSACTION_ERROR"}

\* C24: once the walk has visited a call whose normalised text matches a
\* persistence-session shape, DB_CONNECTION_ERROR, DB_QUERY_ERROR and
\* DB_TRANSACTION_ERROR are in the discovered codes, and they are in error_codes
\* of the result of a target whose tree holds such a call; no such call resolves
\* to a function.
C24_PersistenceShapes ==
    /\ \A i \in 1..Len(stack) :
           \A node \in VisitedCalls(stack[i]) :
               PersistenceShape(node)
               => /\ ConnectionQueryTransaction \subseteq errors
                  /\ _resolve_function_call(node) = NoneStr
                  /\ _resolve_method_call(node) = NoneStr
    /\ (Done /\ TargetHasSource
           /\ \E i \in 1..Len(TreeNodes(function)) :
                  TreeNodes(function)[i].t = "Call" /\ PersistenceShape(TreeNodes(function)[i]))
       => ConnectionQueryTransaction \subseteq Range(Last.error_codes)

C24_Witness ==
    /\ Done
    /\ function = "commit_func"
    /\ PersistenceShape(TreeNodes("commit_func")[1])
    /\ _get_call_string(TreeNodes("commit_func")[1]) = <<"uow", "commit">>
    /\ ConnectionQueryTransaction \subseteq Range(Last.error_codes)
    /\ Last.total_errors = 7

\* The calls of a function's body that are the operand of an `await`.
AwaitedCalls(f) ==
    {Function(f).body[i].value.value :
        i \in {j \in 1..Len(Function(f).body) :
                  /\ Function(f).body[j].t = "Expr"
                  /\ Function(f).body[j].value.t = "Await"
                  /\ Function(f).body[j].value.value.t = "Call"}}

\* C25: the result of a target whose body awaits a call holds both INTERNAL_ERROR
\* and TIMEOUT_ERROR in error_codes.
C25_AwaitShapes ==
    (Done /\ TargetHasSource /\ AwaitedCalls(function) # {})
    => {"INTERNAL_ERROR", "TIMEOUT_ERROR"} \subseteq Range(Last.error_codes)

\* The normalised text of a call matches a schema-validation shape.
ValidationShape(node) ==
    \E m \in pydantic_methods : ContainsDotMethod(_get_call_string(node), m)

\* C26: once the walk has visited a call whose normalised text matches a
\* schema-validation shape, VALIDATION_FAILED is in the discovered codes, also
\* when the same text matches a persistence-session shape.
C26_ValidationShapes ==
    \A i \in 1..Len(stack) :
        \A node \in VisitedCalls(stack[i]) :
            ValidationShape(node) => "VALIDATION_FAILED" \in errors

\* C27: every status group of the attached responses holds exactly one example
\* per code of its enum: as many examples as codes, and each code is the
\* value.error.code of exactly one example.
C27_OneExamplePerCode ==
    Decorated
    => \A key \in DOMAIN Responses :
           /\ Cardinality(DOMAIN Responses[key].examples) = Len(Responses[key].enum)
           /\ \A i \in 1..Len(Responses[key].enum) :
                  Cardinality({name \in DOMAIN Responses[key].examples :
                                  Responses[key].examples[name].value.error.code
                                      = Responses[key].enum[i]}) = 1

\* A stripped source line that opens a definition, plain or async.
IsDefinitionLine(line) ==
    \/ Len(line) >= 1 /\ line[1] = "def"
    \/ Len(line) >= 2 /\ line[1] = "async" /\ line[2] = "def"

\* The "@" lines of a function's source that precede its definition line.
HeaderDecoratorLines(f) ==
    LET lines == [i \in 1..Len(Function(f).source_lines) |->
                     strip(Function(f).source_lines[i])]
        defs == {i \in 1..Len(lines) : IsDefinitionLine(lines[i])}
        stop == IF defs = {} THEN Len(lines) ELSE Min(defs) - 1
    IN SelectSeq(SubSeq(lines, 1, stop), LAMBDA line : line # <<>> /\ line[1] = "@")

\* C28: every decorator_errors entry comes from an "@" line that precedes the
\* target's definition line, and a target with no such line and no raise or call
\* in its tree has no error code: an "@" line inside the body produces neither an
\* entry nor a code, for plain and async definitions alike.
C28_MarkersPrecedeDefinition ==
    /\ \A i \in 1..Len(decorator_errors) :
           \E j \in 1..Len(HeaderDecoratorLines(function)) :
               DecoratorName(HeaderDecoratorLines(function)[j]) = decorator_errors[i].decorator
    /\ (Done /\ TargetHasSource /\ TreeNodes(function) = <<>>
             /\ HeaderDecoratorLines(function) = <<>>)
       => Last.error_codes = <<>>

\* The visitors applied to a sequence of nodes in turn, on a fresh analyzer.
RECURSIVE WalkNodes(_, _)
WalkNodes(s, nodes) ==
    IF nodes = <<>> THEN s
    ELSE WalkNodes(IF Head(nodes).t = "Raise" THEN visit_Raise(s, Head(nodes))
                   ELSE visit_Call(s, Head(nodes)),
                   Tail(nodes))

\* error_codes of the routine written without its decorators: the walk of the
\* body alone.
UndecoratedCodes(f) ==
    sorted(WalkNodes(ErrorAnalyzer(f, max_depth, FALSE), NodesOfSeq(Function(f).body)).errors)

\* C29: with analyze_decorators = False the result of a target has no
\* decorator_errors entry and its error_codes are those of the same routine
\* without its decorators.
C29_DecoratorsHaveNoInfluence ==
    (Done /\ ~analyze_decorators /\ TargetHasSource)
    => /\ Last.decorator_errors = <<>>
       /\ Last.error_codes = UndecoratedCodes(function)

\* C30: the attached responses are a function of the set of codes and the custom
\* descriptions: every order of enumerating the set gives the same group keys,
\* enum lists, descriptions and examples.
C30_EnumerationOrderIrrelevant ==
    Decorated
    => \A order \in Enumerations(InputCodes) :
           _generate_openapi_responses(order, wrapper.custom_descriptions) = Responses

====
